---------------------------- MODULE Spec2Model ----------------------------
(***************************************************************************)
(* The spiking-network XOR evaluator of examples/xor/evolve-spiking.py:    *)
(* compute_output, simulate and eval_fitness, driven against a network of  *)
(* the neat.iznn interface (reset, set_inputs, advance, neurons, outputs). *)
(***************************************************************************)
EXTENDS Integers, Sequences, FiniteSets, TLC

(***************************************************************************)
(* Python floats are IEEE-754 binary64.  A float is modelled by its exact  *)
(* value (-1)^sgn * man * 2^exp, with man a natural number of exactly      *)
(* Precision bits (or zero), held as a little-endian sequence of limbs in  *)
(* base LimbBase because the arithmetic needs more than 32 bits.  Every    *)
(* operation computes the exact result and rounds it to nearest, ties to   *)
(* even, as the hardware does.  Magnitudes stay far inside the normal      *)
(* range, so subnormals, infinities and NaN do not arise.                  *)
(***************************************************************************)
LimbBits == 15
LimbBase == 32768
Precision == 53

RECURSIVE BStrip(_)
BStrip(a) ==
    IF a = <<>> THEN a
    ELSE IF a[Len(a)] = 0 THEN BStrip(SubSeq(a, 1, Len(a) - 1)) ELSE a

RECURSIVE BAddC(_, _, _)
BAddC(a, b, c) ==
    IF a = <<>> /\ b = <<>> THEN (IF c = 0 THEN <<>> ELSE <<c>>)
    ELSE LET x == (IF a = <<>> THEN 0 ELSE Head(a))
                  + (IF b = <<>> THEN 0 ELSE Head(b)) + c
         IN  <<x % LimbBase>>
             \o BAddC(IF a = <<>> THEN a ELSE Tail(a),
                      IF b = <<>> THEN b ELSE Tail(b), x \div LimbBase)

BAdd(a, b) == BAddC(a, b, 0)

\* a - b - c for a >= b + c, limb by limb with a borrow
RECURSIVE BSubC(_, _, _)
BSubC(a, b, c) ==
    IF a = <<>> THEN <<>>
    ELSE LET x == Head(a) - (IF b = <<>> THEN 0 ELSE Head(b)) - c
         IN  <<x % LimbBase>>
             \o BSubC(Tail(a), IF b = <<>> THEN b ELSE Tail(b),
                      IF x < 0 THEN 1 ELSE 0)

BSub(a, b) == BStrip(BSubC(a, b, 0))

\* -1, 0, 1 as a < b, a = b, a > b
RECURSIVE BCmp(_, _)
BCmp(a, b) ==
    IF Len(a) # Len(b) THEN (IF Len(a) < Len(b) THEN -1 ELSE 1)
    ELSE IF a = <<>> THEN 0
    ELSE IF a[Len(a)] # b[Len(b)] THEN (IF a[Len(a)] < b[Len(b)] THEN -1 ELSE 1)
    ELSE BCmp(BStrip(SubSeq(a, 1, Len(a) - 1)), BStrip(SubSeq(b, 1, Len(b) - 1)))

RECURSIVE BMulSmallC(_, _, _)
BMulSmallC(a, k, c) ==
    IF a = <<>> THEN (IF c = 0 THEN <<>> ELSE <<c>>)
    ELSE LET x == Head(a) * k + c
         IN  <<x % LimbBase>> \o BMulSmallC(Tail(a), k, x \div LimbBase)

BMulSmall(a, k) == BStrip(BMulSmallC(a, k, 0))

RECURSIVE BMul(_, _)
BMul(a, b) ==
    IF a = <<>> \/ b = <<>> THEN <<>>
    ELSE BStrip(BAdd(BMulSmall(a, Head(b)), <<0>> \o BMul(a, Tail(b))))

BShl(a, n) ==
    IF a = <<>> THEN a
    ELSE [i \in 1..(n \div LimbBits) |-> 0] \o BMulSmall(a, 2 ^ (n % LimbBits))

BShr(a, n) ==
    LET q == n \div LimbBits
        r == n % LimbBits
        d == IF q >= Len(a) THEN <<>> ELSE SubSeq(a, q + 1, Len(a))
    IN  BStrip([i \in 1..Len(d) |->
                  (d[i] \div (2 ^ r))
                  + (IF i < Len(d) THEN (d[i + 1] % (2 ^ r)) * (2 ^ (LimbBits - r))
                     ELSE 0)])

\* a mod 2^n
BLow(a, n) ==
    LET q == n \div LimbBits
        r == n % LimbBits
    IN  IF q >= Len(a) THEN a
        ELSE BStrip(SubSeq(a, 1, q) \o <<a[q + 1] % (2 ^ r)>>)

RECURSIVE SmallBitLen(_)
SmallBitLen(k) == IF k = 0 THEN 0 ELSE 1 + SmallBitLen(k \div 2)

BBitLen(a) ==
    IF a = <<>> THEN 0 ELSE LimbBits * (Len(a) - 1) + SmallBitLen(a[Len(a)])

BOdd(a) == a # <<>> /\ a[1] % 2 = 1

\* the largest q in lo..hi with q * d <= cur, by bisection
RECURSIVE BDigit(_, _, _, _)
BDigit(cur, d, lo, hi) ==
    IF lo = hi THEN lo
    ELSE LET mid == (lo + hi + 1) \div 2
         IN  IF BCmp(BMulSmall(d, mid), cur) <= 0 THEN BDigit(cur, d, mid, hi)
             ELSE BDigit(cur, d, lo, mid - 1)

\* <<quotient, remainder>> of n by d # 0: long division, one limb of n at a time
RECURSIVE BDivMod(_, _)
BDivMod(n, d) ==
    IF n = <<>> THEN <<(<<>>), (<<>>)>>
    ELSE LET h   == BDivMod(Tail(n), d)
             cur == BStrip(<<Head(n)>> \o h[2])
             q   == BDigit(cur, d, 0, LimbBase - 1)
         IN  <<BStrip(<<q>> \o h[1]), BSub(cur, BMulSmall(d, q))>>

FZero == [sgn |-> 0, man |-> <<>>, exp |-> 0]

\* the float nearest to (-1)^s * m * 2^e, ties to the even mantissa
FRound(s, m, e) ==
    LET len == BBitLen(m)
    IN  IF m = <<>> THEN FZero
        ELSE IF len <= Precision
        THEN [sgn |-> s, man |-> BShl(m, Precision - len), exp |-> e - (Precision - len)]
        ELSE LET sh   == len - Precision
                 q    == BShr(m, sh)
                 c    == BCmp(BLow(m, sh), BShl(<<1>>, sh - 1))
                 q2   == IF c > 0 \/ (c = 0 /\ BOdd(q)) THEN BAdd(q, <<1>>) ELSE q
             IN  IF BBitLen(q2) > Precision
                 THEN [sgn |-> s, man |-> BShr(q2, 1), exp |-> e + sh + 1]
                 ELSE [sgn |-> s, man |-> q2, exp |-> e + sh]

RECURSIVE NatToBig(_)
NatToBig(n) == IF n = 0 THEN <<>> ELSE <<n % LimbBase>> \o NatToBig(n \div LimbBase)

\* float(n) for an int n
FromInt(n) == IF n < 0 THEN FRound(1, NatToBig(-n), 0) ELSE FRound(0, NatToBig(n), 0)

FNeg(a) == IF a.man = <<>> THEN a ELSE [a EXCEPT !.sgn = 1 - a.sgn]

FAbs(a) == [a EXCEPT !.sgn = 0]

FAdd(a, b) ==
    IF a.man = <<>> THEN b
    ELSE IF b.man = <<>> THEN a
    ELSE LET e  == IF a.exp < b.exp THEN a.exp ELSE b.exp
             ma == BShl(a.man, a.exp - e)
             mb == BShl(b.man, b.exp - e)
             c  == BCmp(ma, mb)
         IN  IF a.sgn = b.sgn THEN FRound(a.sgn, BAdd(ma, mb), e)
             ELSE IF c = 0 THEN FZero
             ELSE IF c > 0 THEN FRound(a.sgn, BSub(ma, mb), e)
             ELSE FRound(b.sgn, BSub(mb, ma), e)

FSub(a, b) == FAdd(a, FNeg(b))

FMul(a, b) ==
    FRound((a.sgn + b.sgn) % 2, BMul(a.man, b.man), a.exp + b.exp)

\* a / b for b # 0: the quotient to Precision + 3 bits and a sticky bit for the rest
FDiv(a, b) ==
    IF a.man = <<>> THEN FZero
    ELSE LET k  == Precision + 3
             h  == BDivMod(BShl(a.man, k), b.man)
             m  == BAdd(BMulSmall(h[1], 2), IF h[2] = <<>> THEN <<>> ELSE <<1>>)
         IN  FRound((a.sgn + b.sgn) % 2, m, a.exp - b.exp - k - 1)

FLt(a, b) ==
    IF a.man = <<>> THEN b.man # <<>> /\ b.sgn = 0
    ELSE IF b.man = <<>> THEN a.sgn = 1
    ELSE IF a.sgn # b.sgn THEN a.sgn = 1
    ELSE LET e  == IF a.exp < b.exp THEN a.exp ELSE b.exp
             c  == BCmp(BShl(a.man, a.exp - e), BShl(b.man, b.exp - e))
         IN  IF a.sgn = 0 THEN c < 0 ELSE c > 0

FLe(a, b) == ~FLt(b, a)

RECURSIVE BigToNat(_)
BigToNat(a) == IF a = <<>> THEN 0 ELSE Head(a) + LimbBase * BigToNat(Tail(a))

\* int(a): the integer part, truncated toward zero
FloatToInt(a) ==
    LET m == IF a.exp >= 0 THEN BShl(a.man, a.exp) ELSE BShr(a.man, -a.exp)
    IN  IF a.sgn = 1 THEN -BigToNat(m) ELSE BigToNat(m)

(***************************************************************************)
(* Python's None and a present value.                                      *)
(***************************************************************************)
None == <<>>
Some(x) == <<x>>

(***************************************************************************)
(* Bounds of the model.                                                    *)
(***************************************************************************)
\* simulated steps per trial (the source runs max_time = 50.0 ms, 200 steps)
MaxSteps == 4
\* a driven neuron fires on every need-th advance, need in 1..MaxNeed
MaxNeed == 2
\* compute_output is applied to the sample times dt*n, n in 0..MaxDecodeSteps
MaxDecodeSteps == 48

(***************************************************************************)
(* Module-level constants of the example.                                  *)
(***************************************************************************)
xor_inputs == <<(<<0, 0>>), (<<0, 1>>), (<<1, 0>>), (<<1, 1>>)>>
xor_outputs == <<0, 1, 1, 0>>
\* dt = 0.25 = 0x1.0000000000000p-2
dt == [sgn |-> 0, man |-> <<0, 0, 0, 128>>, exp |-> -54]
\* max_time, here MaxSteps steps of dt
max_time == FMul(dt, FromInt(MaxSteps))

\* the float literals of compute_output, each the double nearest the decimal:
\* 1.0 = 0x1.0000000000000p+0, -1.0, 1.1 = 0x1.199999999999ap+0,
\* 0.1 = 0x1.999999999999ap-4
One == [sgn |-> 0, man |-> <<0, 0, 0, 128>>, exp |-> -52]
MinusOne == [sgn |-> 1, man |-> <<0, 0, 0, 128>>, exp |-> -52]
Lit_1_1 == [sgn |-> 0, man |-> <<6554, 13107, 26214, 140>>, exp |-> -52]
Lit_0_1 == [sgn |-> 0, man |-> <<6554, 13107, 26214, 204>>, exp |-> -56]

\* max(a, b) and min(a, b) of two floats: the first unless the second beats it
PyMax(a, b) == IF FLt(a, b) THEN b ELSE a
PyMin(a, b) == IF FLt(b, a) THEN b ELSE a

\* compute_output answering a missing spike with 0.0 instead of -1.0
compute_output_NoPenalty(a0, a1) ==
    IF a0 = None \/ a1 = None THEN FZero
    ELSE LET resp == FSub(Lit_1_1, FMul(Lit_0_1, FAbs(FSub(a0[1], a1[1]))))
         IN  PyMax(FZero, PyMin(One, resp))

\* compute_output without the upper clamp min(1.0, response)
compute_output_NoMin(a0, a1) ==
    IF a0 = None \/ a1 = None THEN MinusOne
    ELSE LET resp == FSub(Lit_1_1, FMul(Lit_0_1, FAbs(FSub(a0[1], a1[1]))))
         IN  PyMax(FZero, resp)

\* compute_output without the lower clamp max(0.0, ...)
compute_output_NoMax(a0, a1) ==
    IF a0 = None \/ a1 = None THEN MinusOne
    ELSE LET resp == FSub(Lit_1_1, FMul(Lit_0_1, FAbs(FSub(a0[1], a1[1]))))
         IN  PyMin(One, resp)

\* compute_output interpolating from 1.0 instead of 1.1
compute_output_FromOne(a0, a1) ==
    IF a0 = None \/ a1 = None THEN MinusOne
    ELSE LET resp == FSub(One, FMul(Lit_0_1, FAbs(FSub(a0[1], a1[1]))))
         IN  PyMax(FZero, PyMin(One, resp))

(***************************************************************************)
(* compute_output: the response decoded from the two first-spike times.    *)
(***************************************************************************)
compute_output(a0, a1) ==
    IF a0 = None \/ a1 = None THEN MinusOne
    ELSE LET resp == FSub(Lit_1_1, FMul(Lit_0_1, FAbs(FSub(a0[1], a1[1]))))
         IN  PyMax(FZero, PyMin(One, resp))

(***************************************************************************)
(* The network, neat.iznn: its neurons are its output neurons, numbered in *)
(* output order.  A neuron integrates its drive: its potential v rises one *)
(* level per advance and, on the need-th advance, it fires and v resets in *)
(* the same step.  need = 0 is a neuron that is not driven and never fires.*)
(***************************************************************************)
InputCounts == {1, 2}
OutputCounts == {1, 2}
Needs == 0..MaxNeed

create_phenotype(numIn, numOut) ==
    [nIn |-> numIn, outputs |-> [i \in 1..numOut |-> i],
     inputs |-> None, need |-> [i \in 1..numOut |-> 0],
     v |-> [i \in 1..numOut |-> 0]]

NetReset(n) == [n EXCEPT !.v = [i \in DOMAIN n.v |-> 0], !.inputs = None]

\* the forcing stored by set_inputs, and the drive it gives each neuron
NetSetInputs(n, values, needs) ==
    [n EXCEPT !.inputs = Some(values), !.need = needs]

NeuronFires(n, i) == n.need[i] > 0 /\ n.v[i] + 1 >= n.need[i]

\* advance(dt): every neuron once; returns the new network and, per output, fired
NetAdvance(n) ==
    [net    |-> [n EXCEPT !.v = [i \in DOMAIN n.v |->
                                   IF NeuronFires(n, i) \/ n.need[i] = 0 THEN 0
                                   ELSE n.v[i] + 1]],
     output |-> [k \in 1..Len(n.outputs) |->
                   IF NeuronFires(n, n.outputs[k]) THEN 1 ELSE 0]]

(***************************************************************************)
(* State.  pc is the position in eval_fitness / simulate; genome is the    *)
(* candidate: its network's shape and, per truth-table row, the drive the  *)
(* network gives its neurons under that input (fixed by the genome, and    *)
(* unknown until the row is first applied); net is the network object;     *)
(* calls is the sequence of calls the network has received.  The rest are  *)
(* the locals of simulate (k the 1-based position in the truth table, j    *)
(* the number of loop iterations done), returned the values simulate has   *)
(* returned so far, and fitness is genome.fitness.  replay holds the       *)
(* locals of run()'s loop over the truth table with the best genome's      *)
(* network: its own net, the calls that network received, and printed,     *)
(* the (inputData, response) pairs it has printed.                         *)
(***************************************************************************)
VARIABLES pc, err, todo, genome, net, calls, k, neuron_data, t0, t1, v0, v1,
          num_steps, j, output, response, sum_square_error, simulated, returned, fitness,
          replay

vars == <<pc, err, todo, genome, net, calls, k, neuron_data, t0, t1, v0, v1,
          num_steps, j, output, response, sum_square_error, simulated, returned, fitness,
          replay>>

locals == <<k, neuron_data, t0, t1, v0, v1, num_steps, j, output, response,
            sum_square_error, simulated>>

\* run() before its loop over the truth table
NoReplay ==
    [net |-> None, calls |-> <<>>, k |-> 0, neuron_data |-> None,
     t0 |-> None, t1 |-> None, v0 |-> None, v1 |-> None, num_steps |-> 0,
     j |-> 0, output |-> None, response |-> None, printed |-> <<>>]

Genomes ==
    {[nIn |-> a, nOut |-> b, need |-> [r \in 1..Len(xor_inputs) |-> None]] :
        a \in InputCounts, b \in OutputCounts}

\* before eval_fitness is called n times for the genome
InitWith(n) ==
    /\ pc = "idle"
    /\ err = "none"
    /\ todo = n
    /\ genome \in Genomes
    /\ net = None
    /\ calls = <<>>
    /\ k = None
    /\ neuron_data = None
    /\ t0 = None /\ t1 = None /\ v0 = None /\ v1 = None
    /\ num_steps = None /\ j = None
    /\ output = None
    /\ response = None
    /\ sum_square_error = None
    /\ simulated = None
    /\ returned = <<>>
    /\ fitness = None
    /\ replay = NoReplay

Init == InitWith(1)

\* Simulate with sum_square_error kept from the evaluation before
Simulate_KeepError ==
    /\ pc = "idle" /\ todo > 0
    /\ net' = create_phenotype(genome.nIn, genome.nOut)
    /\ calls' = <<>>
    /\ sum_square_error' = IF sum_square_error = None THEN FZero
                           ELSE sum_square_error
    /\ simulated' = <<>>
    /\ k' = 1
    /\ neuron_data' = None
    /\ t0' = None /\ t1' = None /\ v0' = None /\ v1' = None
    /\ num_steps' = None /\ j' = None /\ output' = None /\ response' = None
    /\ pc' = "trial"
    /\ UNCHANGED <<err, todo, genome, returned, fitness>>
    /\ UNCHANGED replay

\* eval_fitness takes the genome and calls simulate, which builds the network
Simulate ==
    /\ pc = "idle" /\ todo > 0
    /\ net' = create_phenotype(genome.nIn, genome.nOut)
    /\ calls' = <<>>
    /\ sum_square_error' = FZero
    /\ simulated' = <<>>
    /\ k' = 1
    /\ neuron_data' = None
    /\ t0' = None /\ t1' = None /\ v0' = None /\ v1' = None
    /\ num_steps' = None /\ j' = None /\ output' = None /\ response' = None
    /\ pc' = "trial"
    /\ UNCHANGED <<err, todo, genome, returned, fitness>>
    /\ UNCHANGED replay

\* TrialBegin without the call of net.reset()
TrialBegin_NoReset ==
    /\ pc = "trial"
    /\ neuron_data' = [i \in DOMAIN net.v |-> <<>>]
    /\ pc' = "set_inputs"
    /\ UNCHANGED <<err, todo, genome, net, calls, k, t0, t1, v0, v1, num_steps,
                   j, output, response, sum_square_error, simulated, returned,
                   fitness>>
    /\ UNCHANGED replay

\* the head of a trial: fresh traces, then net.reset()
TrialBegin ==
    /\ pc = "trial"
    /\ neuron_data' = [i \in DOMAIN net.v |-> <<>>]
    /\ net' = NetReset(net)
    /\ calls' = Append(calls, <<"reset">>)
    /\ pc' = "set_inputs"
    /\ UNCHANGED <<err, todo, genome, k, t0, t1, v0, v1, num_steps, j, output,
                   response,
                   sum_square_error, simulated, returned, fitness>>
    /\ UNCHANGED replay

\* SetInputs leaving t0, t1, v0, v1 as the trial before left them
SetInputs_KeepSpikes ==
    /\ pc = "set_inputs"
    /\ calls' = Append(calls, <<"set_inputs", xor_inputs[k]>>)
    /\ IF Len(xor_inputs[k]) # net.nIn
       THEN /\ pc' = "error"
            /\ err' = "InvalidInputLength"
            /\ UNCHANGED <<genome, net, num_steps, j>>
       ELSE /\ \E needs \in [DOMAIN net.v -> Needs] :
                 /\ genome.need[k] \in {None, Some(needs)}
                 /\ genome' = [genome EXCEPT !.need[k] = Some(needs)]
                 /\ net' = NetSetInputs(net, xor_inputs[k], needs)
            /\ num_steps' = FloatToInt(FDiv(max_time, dt))
            /\ j' = 0
            /\ pc' = "step"
            /\ err' = err
    /\ UNCHANGED <<todo, k, neuron_data, t0, t1, v0, v1, output, response,
                   sum_square_error, simulated, returned, fitness>>
    /\ UNCHANGED replay

\* net.set_inputs(inputData), then the trial's locals
SetInputs ==
    /\ pc = "set_inputs"
    /\ calls' = Append(calls, <<"set_inputs", xor_inputs[k]>>)
    /\ IF Len(xor_inputs[k]) # net.nIn
       THEN /\ pc' = "error"
            /\ err' = "InvalidInputLength"
            /\ UNCHANGED <<genome, net, t0, t1, v0, v1, num_steps, j>>
       ELSE /\ \E needs \in [DOMAIN net.v -> Needs] :
                 /\ genome.need[k] \in {None, Some(needs)}
                 /\ genome' = [genome EXCEPT !.need[k] = Some(needs)]
                 /\ net' = NetSetInputs(net, xor_inputs[k], needs)
            /\ t0' = None /\ t1' = None /\ v0' = None /\ v1' = None
            /\ num_steps' = FloatToInt(FDiv(max_time, dt))
            /\ j' = 0
            /\ pc' = "step"
            /\ err' = err
    /\ UNCHANGED <<todo, k, neuron_data, output, response, sum_square_error,
                   simulated, returned, fitness>>
    /\ UNCHANGED replay

\* Latch without the "tk is None" test: every firing overwrites the record
Latch_EveryFire(tk, vk, out, idx, data, outputs) ==
    IF idx > Len(out) THEN [raised |-> TRUE, t |-> tk, v |-> vk]
    ELSE IF out[idx] > 0
    THEN LET trace == data[outputs[idx]]
         IN  IF Len(trace) < 2 THEN [raised |-> TRUE, t |-> tk, v |-> vk]
             ELSE [raised |-> FALSE,
                   t |-> Some(trace[Len(trace) - 1][1]),
                   v |-> Some(trace[Len(trace) - 1][2])]
    ELSE [raised |-> FALSE, t |-> tk, v |-> vk]

\* "if tk is None and output[idx] > 0: tk, vk = neuron_data[net.outputs[idx]][-2]"
\* for the output at (1-based) position idx; raised is an IndexError
Latch(tk, vk, out, idx, data, outputs) ==
    IF tk # None THEN [raised |-> FALSE, t |-> tk, v |-> vk]
    ELSE IF idx > Len(out) THEN [raised |-> TRUE, t |-> tk, v |-> vk]
    ELSE IF out[idx] > 0
    THEN LET trace == data[outputs[idx]]
         IN  IF Len(trace) < 2 THEN [raised |-> TRUE, t |-> tk, v |-> vk]
             ELSE [raised |-> FALSE,
                   t |-> Some(trace[Len(trace) - 1][1]),
                   v |-> Some(trace[Len(trace) - 1][2])]
    ELSE [raised |-> FALSE, t |-> tk, v |-> vk]

\* one iteration of the step loop
Step ==
    /\ pc = "step" /\ j < num_steps
    /\ LET t    == FMul(dt, FromInt(j))
           adv  == NetAdvance(net)
           data == [i \in DOMAIN neuron_data |->
                      Append(neuron_data[i], <<t, adv.net.v[i]>>)]
           l0   == Latch(t0, v0, adv.output, 1, data, net.outputs)
           l1   == Latch(t1, v1, adv.output, 2, data, net.outputs)
       IN  /\ net' = adv.net
           /\ calls' = Append(calls, <<"advance", dt>>)
           /\ output' = Some(adv.output)
           /\ neuron_data' = data
           /\ t0' = l0.t /\ v0' = l0.v
           /\ IF l0.raised
              THEN /\ pc' = "error" /\ err' = "IndexError"
                   /\ UNCHANGED <<t1, v1, j>>
              ELSE /\ t1' = l1.t /\ v1' = l1.v
                   /\ IF l1.raised
                      THEN pc' = "error" /\ err' = "IndexError" /\ j' = j
                      ELSE pc' = "step" /\ err' = err /\ j' = j + 1
    /\ UNCHANGED <<todo, genome, k, num_steps, response, sum_square_error,
                   simulated, returned, fitness>>
    /\ UNCHANGED replay

\* the error left unsquared: response - outputData
SquaredError_NoSquare(r, expected) == FSub(r, FromInt(expected))

\* (response - outputData) ** 2, the int outputData converted to float
SquaredError(r, expected) ==
    LET e == FSub(r, FromInt(expected)) IN FMul(e, e)

\* after the loop: decode, accumulate the squared error, keep the record
Decode ==
    /\ pc = "step" /\ j = num_steps
    /\ LET r == compute_output(t0, t1)
       IN  /\ response' = Some(r)
           /\ sum_square_error' =
                  FAdd(sum_square_error, SquaredError(r, xor_outputs[k]))
    /\ simulated' = Append(simulated,
                           <<xor_inputs[k], xor_outputs[k], t0, t1, v0, v1,
                             neuron_data>>)
    /\ k' = k + 1
    /\ pc' = IF k = Len(xor_inputs) THEN "return" ELSE "trial"
    /\ UNCHANGED <<err, todo, genome, net, calls, neuron_data, t0, t1, v0, v1,
                   num_steps, j, output, returned, fitness>>
    /\ UNCHANGED replay

\* 1 - sum_square_error clamped at 0.0
Fitness_Clamped(sse) == PyMax(FZero, FSub(FromInt(1), sse))

\* 1 - sum_square_error
Fitness(sse) == FSub(FromInt(1), sse)

\* simulate returns; eval_fitness sets genome.fitness = 1 - sum_square_error
Return ==
    /\ pc = "return"
    /\ returned' = Append(returned, <<sum_square_error, simulated>>)
    /\ fitness' = Some(Fitness(sum_square_error))
    /\ todo' = todo - 1
    /\ pc' = "idle"
    /\ UNCHANGED <<err, genome, net, calls, locals>>
    /\ UNCHANGED replay

Next == Simulate \/ TrialBegin \/ SetInputs \/ Step \/ Decode \/ Return

Spec == Init /\ [][Next]_vars

\* the same genome evaluated twice (two generations of pop.run)
InitRerun == InitWith(2)
SpecRerun == InitRerun /\ [][Next]_vars

(***************************************************************************)
(* run() after pop.run: the loop that shows the output of the best genome. *)
(* The best genome is the evaluated one; its network is built again, and   *)
(* under each input it gives its neurons the drive it gave in simulate.    *)
(***************************************************************************)
\* net = neat.iznn.create_phenotype(winner, **neuron_params)
ReplayBegin ==
    /\ pc = "idle" /\ todo = 0 /\ fitness # None
    /\ replay' = [NoReplay EXCEPT
                    !.net = create_phenotype(genome.nIn, genome.nOut), !.k = 1]
    /\ pc' = "r_trial"
    /\ UNCHANGED <<err, todo, genome, net, calls, locals, returned, fitness>>

\* the head of a replayed trial: fresh traces, then net.reset()
ReplayTrialBegin ==
    /\ pc = "r_trial"
    /\ replay' = [replay EXCEPT
                    !.neuron_data = [i \in DOMAIN replay.net.v |-> <<>>],
                    !.net = NetReset(replay.net),
                    !.calls = Append(replay.calls, <<"reset">>)]
    /\ pc' = "r_set_inputs"
    /\ UNCHANGED <<err, todo, genome, net, calls, locals, returned, fitness>>

\* net.set_inputs(inputData), t0 = None, t1 = None, num_steps
ReplaySetInputs ==
    /\ pc = "r_set_inputs"
    /\ IF Len(xor_inputs[replay.k]) # replay.net.nIn
       THEN /\ replay' = [replay EXCEPT
                  !.calls = Append(replay.calls,
                                   <<"set_inputs", xor_inputs[replay.k]>>)]
            /\ pc' = "r_error"
            /\ err' = "InvalidInputLength"
            /\ UNCHANGED genome
       ELSE /\ \E needs \in [DOMAIN replay.net.v -> Needs] :
                 /\ genome.need[replay.k] \in {None, Some(needs)}
                 /\ genome' = [genome EXCEPT !.need[replay.k] = Some(needs)]
                 /\ replay' = [replay EXCEPT
                      !.calls = Append(replay.calls,
                                       <<"set_inputs", xor_inputs[replay.k]>>),
                      !.net = NetSetInputs(replay.net, xor_inputs[replay.k], needs),
                      !.t0 = None, !.t1 = None,
                      !.num_steps = FloatToInt(FDiv(max_time, dt)),
                      !.j = 0]
            /\ pc' = "r_step"
            /\ err' = err
    /\ UNCHANGED <<todo, net, calls, locals, returned, fitness>>

\* the replay's latch reading the sample of the firing step itself
ReplayLatch_SameStep(tk, vk, out, idx, data, outputs) ==
    IF tk # None THEN [raised |-> FALSE, t |-> tk, v |-> vk]
    ELSE IF idx > Len(out) THEN [raised |-> TRUE, t |-> tk, v |-> vk]
    ELSE IF out[idx] > 0
    THEN LET trace == data[outputs[idx]]
         IN  IF Len(trace) < 1 THEN [raised |-> TRUE, t |-> tk, v |-> vk]
             ELSE [raised |-> FALSE,
                   t |-> Some(trace[Len(trace)][1]),
                   v |-> Some(trace[Len(trace)][2])]
    ELSE [raised |-> FALSE, t |-> tk, v |-> vk]

\* "if tk is None and output[idx] > 0: tk, vk = neuron_data[net.outputs[idx]][-2]"
\* in run(), for the output at (1-based) position idx
ReplayLatch(tk, vk, out, idx, data, outputs) ==
    IF tk # None THEN [raised |-> FALSE, t |-> tk, v |-> vk]
    ELSE IF idx > Len(out) THEN [raised |-> TRUE, t |-> tk, v |-> vk]
    ELSE IF out[idx] > 0
    THEN LET trace == data[outputs[idx]]
         IN  IF Len(trace) < 2 THEN [raised |-> TRUE, t |-> tk, v |-> vk]
             ELSE [raised |-> FALSE,
                   t |-> Some(trace[Len(trace) - 1][1]),
                   v |-> Some(trace[Len(trace) - 1][2])]
    ELSE [raised |-> FALSE, t |-> tk, v |-> vk]

\* one iteration of the replay's step loop
ReplayStep ==
    /\ pc = "r_step" /\ replay.j < replay.num_steps
    /\ LET t    == FMul(dt, FromInt(replay.j))
           adv  == NetAdvance(replay.net)
           data == [i \in DOMAIN replay.neuron_data |->
                      Append(replay.neuron_data[i], <<t, adv.net.v[i]>>)]
           l0   == ReplayLatch(replay.t0, replay.v0, adv.output, 1, data,
                               replay.net.outputs)
           l1   == ReplayLatch(replay.t1, replay.v1, adv.output, 2, data,
                               replay.net.outputs)
           r    == [replay EXCEPT
                      !.net = adv.net,
                      !.calls = Append(replay.calls, <<"advance", dt>>),
                      !.output = Some(adv.output),
                      !.neuron_data = data,
                      !.t0 = l0.t, !.v0 = l0.v]
       IN  IF l0.raised
           THEN replay' = r /\ pc' = "r_error" /\ err' = "IndexError"
           ELSE IF l1.raised
           THEN /\ replay' = [r EXCEPT !.t1 = l1.t, !.v1 = l1.v]
                /\ pc' = "r_error" /\ err' = "IndexError"
           ELSE /\ replay' = [r EXCEPT !.t1 = l1.t, !.v1 = l1.v,
                                       !.j = replay.j + 1]
                /\ pc' = "r_step" /\ err' = err
    /\ UNCHANGED <<todo, genome, net, calls, locals, returned, fitness>>

\* after the loop: response = compute_output(t0, t1); print(inputData, response)
ReplayPrint ==
    /\ pc = "r_step" /\ replay.j = replay.num_steps
    /\ LET r == compute_output(replay.t0, replay.t1)
       IN  replay' = [replay EXCEPT
                        !.response = Some(r),
                        !.printed = Append(replay.printed,
                                           <<xor_inputs[replay.k], r>>),
                        !.k = replay.k + 1]
    /\ pc' = IF replay.k = Len(xor_inputs) THEN "r_done" ELSE "r_trial"
    /\ UNCHANGED <<err, todo, genome, net, calls, locals, returned, fitness>>

NextReplay ==
    \/ Next
    \/ ReplayBegin \/ ReplayTrialBegin \/ ReplaySetInputs \/ ReplayStep
    \/ ReplayPrint

\* one evaluation of the genome, then the replay of it as the best genome
SpecReplay == Init /\ [][NextReplay]_vars

(***************************************************************************)
(* compute_output on its own: called with every pair of arguments drawn    *)
(* from None and the sample times dt*n simulate can record.                *)
(***************************************************************************)
SampleTimes == {Some(FMul(dt, FromInt(n))) : n \in 0..MaxDecodeSteps}

InitDecode ==
    /\ pc = "call"
    /\ t0 \in SampleTimes \cup {None}
    /\ t1 \in SampleTimes \cup {None}
    /\ err = "none" /\ todo = 0
    /\ genome = [nIn |-> 2, nOut |-> 2, need |-> [r \in 1..Len(xor_inputs) |-> None]]
    /\ net = None /\ calls = <<>> /\ k = None /\ neuron_data = None
    /\ v0 = None /\ v1 = None /\ num_steps = None /\ j = None
    /\ output = None /\ response = None /\ sum_square_error = None
    /\ simulated = None /\ returned = <<>> /\ fitness = None
    /\ replay = NoReplay

CallComputeOutput ==
    /\ pc = "call"
    /\ response' = Some(compute_output(t0, t1))
    /\ pc' = "called"
    /\ UNCHANGED <<err, todo, genome, net, calls, k, neuron_data, t0, t1, v0, v1,
                   num_steps, j, output, sum_square_error, simulated, returned,
                   fitness>>
    /\ UNCHANGED replay

NextDecode == CallComputeOutput

SpecDecode == InitDecode /\ [][NextDecode]_vars

(***************************************************************************)
(* Properties.                                                             *)
(***************************************************************************)
\* a trial of simulate has been decoded and its locals are still in place
Decoded == response # None /\ pc \in {"trial", "set_inputs", "return", "idle"}

AbsDiff(a, b) == FAbs(FSub(a[1], b[1]))
BothPresent == t0 # None /\ t1 # None
Called == pc = "called"
FirstSample == Some(FZero)
Five == FromInt(5)
Eleven == FromInt(11)

\* C1: compute_output(t0, t1) is exactly -1.0 whenever t0 or t1 is None,
\* whatever the other argument, and a decoded trial in which an output neuron
\* never fired (it was not driven, or nothing was latched for it) has
\* response -1.0.  The first conjunct does not read the trial's state and is
\* evaluated where eval_fitness is between evaluations.
C1_MissingSpike ==
    /\ pc = "idle" =>
          \A a \in SampleTimes \cup {None} :
             compute_output(None, a) = MinusOne /\ compute_output(a, None) = MinusOne
    /\ Decoded /\ (t0 = None \/ t1 = None) => response = Some(MinusOne)
    /\ Decoded /\ (\E i \in DOMAIN net.need : net.need[i] = 0)
          => response = Some(MinusOne)

\* a decoded trial in which output 0 never fired and output 1 did
C1_Witness ==
    /\ Decoded /\ net.need[1] = 0 /\ net.need[2] > 0
    /\ t0 = None /\ t1 # None
    /\ response = Some(MinusOne)

\* C2: with both spike times present the response lies in [0, 1] and is
\* non-increasing in |t0 - t1|.  The returned response is compared with the
\* response of every pair (0.0, b): a pair at least as far apart answers no
\* more, one at most as far apart answers no less; every difference of two
\* sample times is the difference of such a pair, so the two comparisons
\* order the responses of any two pairs by their differences.
C2_MonotoneInRange ==
    Called /\ BothPresent =>
        LET r == response[1]
            d == AbsDiff(t0, t1)
        IN  /\ FLe(FZero, r) /\ FLe(r, One)
            /\ \A b \in SampleTimes :
                  LET rb == compute_output(FirstSample, b)
                      db == AbsDiff(FirstSample, b)
                  IN  /\ FLe(d, db) => FLe(rb, r)
                      /\ FLe(db, d) => FLe(r, rb)

\* a response strictly between 0 and 1 has been returned
C2_Witness ==
    /\ Called /\ BothPresent
    /\ FLt(FZero, response[1]) /\ FLt(response[1], One)

\* 0.6 = 0x1.3333333333333p-1, the double the literal 0.6 denotes
Lit_0_6 == [sgn |-> 0, man |-> <<13107, 26214, 19660, 153>>, exp |-> -53]
\* 0.6000000000000001 = 0x1.3333333333334p-1, the next double above it
Lit_0_6_Up == [sgn |-> 0, man |-> <<13108, 26214, 19660, 153>>, exp |-> -53]

\* C3 as stated: the response is 1.0 at |t0-t1| = 0, 0.0 at |t0-t1| >= 11.0
\* and 0.6 at |t0-t1| = 5.0.
C3_AsStated ==
    Called /\ BothPresent =>
        LET r == response[1]
            d == AbsDiff(t0, t1)
        IN  /\ d = FZero => r = One
            /\ FLe(Eleven, d) => r = FZero
            /\ d = Five => r = Lit_0_6

\* C3 amended: the response is 1.0 at |t0-t1| = 0, 0.0 at |t0-t1| >= 11.0,
\* and at |t0-t1| = 5.0 it is 1.1 - 0.5 rounded to a double, which is
\* 0.6000000000000001, one unit in the last place above 0.6.
C3_Boundary ==
    Called /\ BothPresent =>
        LET r == response[1]
            d == AbsDiff(t0, t1)
        IN  /\ d = FZero => r = One
            /\ FLe(Eleven, d) => r = FZero
            /\ d = Five => r = Lit_0_6_Up /\ r # Lit_0_6

\* compute_output has been called with spike times 5.0 ms apart
C3_Witness == Called /\ BothPresent /\ AbsDiff(t0, t1) = Five

\* what the last advance of the running trial returned for output position i
FiredNow(i) ==
    /\ pc \in {"step", "error"} /\ output # None
    /\ i <= Len(output[1]) /\ output[1][i] > 0

\* C4: within a trial, once (t0, v0) or (t1, v1) is set no later step of the
\* trial changes it, however often the neuron fires again; a record changes
\* only in a step in which its own neuron fired, and a neuron that fires with
\* its record unset gets it set whatever the state of the other record.
C4_SingleFire ==
    [][pc = "step" =>
         /\ t0 # None => t0' = t0 /\ v0' = v0
         /\ t1 # None => t1' = t1 /\ v1' = v1
         /\ t0' # t0 => output'[1][1] > 0
         /\ t1' # t1 => output'[1][2] > 0
         /\ pc' = "step" /\ j' = j + 1 /\ t0 = None /\ output'[1][1] > 0
               => t0' # None
         /\ pc' = "step" /\ j' = j + 1 /\ t1 = None /\ output'[1][2] > 0
               => t1' # None]_vars

\* output 0 fires again in the fourth step, after its record was set from the
\* first sample, while output 1 has no record yet
C4_Witness ==
    /\ pc = "step" /\ j = 4 /\ FiredNow(1)
    /\ t0 = Some(FZero) /\ t1 = None

\* the neuron at output position i has just fired for the first time in the
\* trial: it fires on every need-th advance and its trace has need samples
FirstFiredNow(i) ==
    /\ FiredNow(i)
    /\ Len(neuron_data[net.outputs[i]]) = net.need[net.outputs[i]]

\* C5 as stated: when an output neuron first fires in step j, its recorded
\* (t, v) is the trace sample appended in step j-1: t = dt*(j-1) and v the
\* potential observed after step j-1.
C5_LookBack ==
    /\ FirstFiredNow(1) =>
          LET trace == neuron_data[net.outputs[1]]
              jf    == Len(trace) - 1
          IN  /\ jf >= 1
              /\ t0 = Some(FMul(dt, FromInt(jf - 1)))
              /\ v0 = Some(trace[jf][2])
    /\ FirstFiredNow(2) =>
          LET trace == neuron_data[net.outputs[2]]
              jf    == Len(trace) - 1
          IN  /\ jf >= 1
              /\ t1 = Some(FMul(dt, FromInt(jf - 1)))
              /\ v1 = Some(trace[jf][2])

\* the sum, in truth-table order, of the squared errors of the records
RECURSIVE ErrorOfRecords(_)
ErrorOfRecords(recs) ==
    IF recs = <<>> THEN FZero
    ELSE LET rec == recs[Len(recs)]
         IN  FAdd(ErrorOfRecords(SubSeq(recs, 1, Len(recs) - 1)),
                  SquaredError(compute_output(rec[3], rec[4]), rec[2]))

\* C6: the fitness assigned is 1 minus the sum over the four trials of
\* (response - expected)^2, unclamped: never above 1, and -9 when every
\* trial's response is -1.0.
C6_Fitness ==
    fitness # None =>
        LET recs == returned[Len(returned)][2]
        IN  /\ Len(recs) = 4
            /\ fitness[1] = FSub(One, ErrorOfRecords(recs))
            /\ FLe(fitness[1], One)
            /\ (\A n \in 1..4 : recs[n][3] = None \/ recs[n][4] = None)
                  => fitness[1] = FromInt(-9)

\* an evaluation in which no trial latched both spikes
C6_Witness ==
    /\ fitness = Some(FromInt(-9))
    /\ \A n \in 1..4 : returned[1][2][n][3] = None \/ returned[1][2][n][4] = None

\* the call the network receives n-th when every trial takes steps advances
ExpectedCall(n, steps) ==
    LET pos   == (n - 1) % (2 + steps)
        trial == ((n - 1) \div (2 + steps)) + 1
    IN  IF pos = 0 THEN <<"reset">>
        ELSE IF pos = 1 THEN <<"set_inputs", xor_inputs[trial]>>
        ELSE <<"advance", dt>>

\* C7: the network sees, trial after trial in truth-table order, reset, then
\* set_inputs(input_vector), then the trial's advances; a trial is decoded
\* after its advances and before the next trial's reset.
C7_Ordering ==
    net # None =>
        LET steps == IF Len(calls) <= 2 THEN FloatToInt(FDiv(max_time, dt))
                     ELSE num_steps
        IN  /\ \A n \in 1..Len(calls) :
                  /\ (n - 1) \div (2 + steps) < Len(xor_inputs)
                  /\ calls[n] = ExpectedCall(n, steps)
            /\ pc \in {"trial", "return", "idle"}
                  => Len(calls) = Len(simulated) * (2 + steps)
            /\ pc \in {"set_inputs", "step", "error"}
                  => /\ Len(calls) > Len(simulated) * (2 + steps)
                     /\ Len(calls) <= (Len(simulated) + 1) * (2 + steps)

\* all four trials have run
C7_Witness ==
    /\ pc = "return" /\ Len(simulated) = 4
    /\ calls[Len(calls)] = <<"advance", dt>>
    /\ Len(calls) = 4 * (2 + MaxSteps)

Advances == Len(SelectSeq(calls, LAMBDA c : c[1] = "advance"))

\* C8 as stated: simulate on a well-formed network always reaches its return
\* after exactly 4 * floor(max_time/dt) advance calls.
C8_BoundedStepping ==
    /\ genome.nIn = 2 /\ genome.nOut = 2
    /\ pc \in {"return", "error"}
    => /\ pc = "return"
       /\ Advances = 4 * FloatToInt(FDiv(max_time, dt))

\* C9 as stated: an evaluation that fails fails at network construction,
\* before any reset, set_inputs or advance call.
C9_FailsAtConstruction == pc = "error" => calls = <<>>

\* C10: two evaluations of the same genome return the same sum_square_error
\* and the same records (t0, t1, v0, v1 and traces per trial), and while the
\* second runs, its records so far are those of the first.
C10_Deterministic ==
    /\ Len(returned) = 2 => returned[1] = returned[2]
    /\ Len(returned) = 1 /\ simulated # None /\ pc # "idle"
          => /\ Len(simulated) <= Len(returned[1][2])
             /\ simulated = SubSeq(returned[1][2], 1, Len(simulated))
             /\ pc # "error"

\* both evaluations have returned, with both spikes latched in some trial
C10_Witness ==
    /\ Len(returned) = 2
    /\ \E n \in 1..4 : returned[2][2][n][3] # None /\ returned[2][2][n][4] # None

\* the step loop of the running trial ends and the trial is decoded
Decoding == pc = "step" /\ pc' \in {"trial", "return"}

Tolerance == [sgn |-> 0, man |-> <<0, 0, 0, 128>>, exp |-> -92]

\* C12: spike times within 1.0 ms of each other give response 1, more than
\* 11 ms apart give 0, and a difference d with 1 < d < 11 gives the
\* unclamped 1.1 - 0.1*d, strictly between 0 and 1.  With d = n/4 the exact
\* line is (44 - n)/40: the response times 40 is within 2^-40 of 44 - n.
C12_PlateauInterpolation ==
    Called /\ BothPresent =>
        LET r == response[1]
            d == AbsDiff(t0, t1)
            n == FloatToInt(FMul(d, FromInt(4)))
        IN  /\ FLe(d, One) => r = One
            /\ FLt(Eleven, d) => r = FZero
            /\ FLt(One, d) /\ FLt(d, Eleven)
                  => /\ r = FSub(Lit_1_1, FMul(Lit_0_1, d))
                     /\ FLt(FZero, r) /\ FLt(r, One)
                     /\ FLe(FAbs(FSub(FMul(r, FromInt(40)), FromInt(44 - n))),
                            Tolerance)

\* compute_output has been called with spike times 10.0 ms apart
C12_Witness ==
    /\ Called /\ BothPresent /\ AbsDiff(t0, t1) = FromInt(10)
    /\ response[1] = FSub(Lit_1_1, One)

\* C13 as stated: on a well-formed network (two inputs, two outputs) no step
\* of simulate ends in an error, whatever step an output first fires in.
C13_NoError == genome.nIn = 2 /\ genome.nOut = 2 => pc # "error"

\* the record (tk, vk) is a sample of the trace of the neuron at position i,
\* and that neuron is driven in the running trial
FromThisTrial(tk, vk, i) ==
    tk # None =>
        /\ net.need[net.outputs[i]] > 0
        /\ \E s \in 1..Len(neuron_data[net.outputs[i]]) :
              /\ tk = Some(neuron_data[net.outputs[i]][s][1])
              /\ vk = Some(neuron_data[net.outputs[i]][s][2])

\* the neuron at output position i fires within the trial's steps
FiresInTrial(i) ==
    net.need[net.outputs[i]] > 0 /\ net.need[net.outputs[i]] <= num_steps

\* C14: when a trial's stepping starts, t0, t1, v0, v1 are None and every
\* trace is empty; after the step at time j*dt every trace holds the j+1
\* samples of times 0, dt, ..., j*dt; a record is a sample of the running
\* trial's own trace, and the decoded response is compute_output of records
\* that are set exactly for the neurons that fired in this trial.
C14_TrialIsolation ==
    /\ pc = "step" /\ j = 0
          => /\ t0 = None /\ t1 = None /\ v0 = None /\ v1 = None
             /\ \A i \in DOMAIN neuron_data : neuron_data[i] = <<>>
    /\ pc \in {"step", "error"} /\ neuron_data # None /\ err # "InvalidInputLength"
          => \A i \in DOMAIN neuron_data :
                /\ Len(neuron_data[i]) = IF pc = "error" THEN j + 1 ELSE j
                /\ \A s \in 1..Len(neuron_data[i]) :
                      neuron_data[i][s][1] = FMul(dt, FromInt(s - 1))
    /\ pc \in {"step", "trial", "return"} /\ neuron_data # None
          => /\ FromThisTrial(t0, v0, 1)
             /\ FromThisTrial(t1, v1, 2)
    /\ pc \in {"trial", "return"} /\ response # None
          => /\ response = Some(compute_output(t0, t1))
             /\ t0 # None <=> FiresInTrial(1)
             /\ t1 # None <=> FiresInTrial(2)

\* the second trial is decoded with output 0 unset after a first trial in
\* which output 0 had fired and was recorded
C14_Witness ==
    /\ pc = "trial" /\ k = 3
    /\ simulated[1][3] # None
    /\ t0 = None /\ t1 # None
    /\ response = Some(MinusOne)

Replaying == pc \in {"r_trial", "r_set_inputs", "r_step", "r_done", "r_error"}

\* the sum, in truth-table order, of the squared errors of printed responses
RECURSIVE ErrorOfPrinted(_)
ErrorOfPrinted(lines) ==
    IF lines = <<>> THEN FZero
    ELSE LET n == Len(lines)
         IN  FAdd(ErrorOfPrinted(SubSeq(lines, 1, n - 1)),
                  SquaredError(lines[n][2], xor_outputs[n]))

\* C15: the replay loop of run() is equivalent to simulate.  With a network
\* of the same behaviour it raises no error, the calls its network receives
\* are the calls simulate's network received (a prefix of them until the
\* replay is over, then all of them), after each printed line its t0 and t1
\* are the ones simulate recorded for that trial, the line is the trial's
\* input with compute_output of those records, and the squared errors of the
\* printed responses add up to the sum simulate returned.
C15_ReplayEquivalent ==
    Replaying =>
        LET n == Len(replay.printed)
            m == Len(replay.calls)
        IN  /\ pc # "r_error"
            /\ m <= Len(calls) /\ SubSeq(calls, 1, m) = replay.calls
            /\ \A i \in 1..n :
                  replay.printed[i] =
                      <<xor_inputs[i],
                        compute_output(simulated[i][3], simulated[i][4])>>
            /\ pc \in {"r_trial", "r_done"} /\ n >= 1
                  => /\ replay.t0 = simulated[n][3]
                     /\ replay.t1 = simulated[n][4]
            /\ pc = "r_done"
                  => /\ n = Len(xor_inputs)
                     /\ replay.calls = calls
                     /\ replay.response = response
                     /\ returned[1][1] = ErrorOfPrinted(replay.printed)

\* the replay is over; in the first trial both outputs fired together and
\* in the last only output 0 fired
C15_Witness ==
    /\ pc = "r_done"
    /\ replay.printed[1] = <<xor_inputs[1], One>>
    /\ replay.printed[4] = <<xor_inputs[4], MinusOne>>
    /\ simulated[4][3] # None

=============================================================================
